---------------------------- MODULE Spec2Model ----------------------------
(***************************************************************************)
(* Model of src/Canvas2d/babylon.canvas2dLayoutEngine.ts: LayoutEngineBase *)
(* (lock), CanvasLayoutEngine, StackPanelLayoutEngine (with its lazily     *)
(* created Horizontal / Vertical singletons), GridDimensionDefinition      *)
(* (_parse) and GridPanelLayoutEngine, acting on a small tree of prims.    *)
(*                                                                         *)
(* Prim2DBase, Canvas2D, Size, Vector2 and PrimitiveThickness are not part *)
(* of the file; a prim is modelled by the fields the engines read and      *)
(* write (children, parent, owner, actualSize, margin, contentArea,        *)
(* layoutArea, layoutAreaPos, the layout-dirty flag, the "grid" external   *)
(* data).  Size and Vector2 are values.                                    *)
(***************************************************************************)
EXTENDS Integers, Sequences, FiniteSets, TLC

\* ------------------------------------------------------------------ bounds

\* Number of engine instances that can exist (heap capacity), the
\* CanvasLayoutEngine.Singleton included.
MaxEngines == 3

\* Length of the core of a dimension string, and blanks added on each side.
MaxLen == 3
MaxPad == 1

\* ------------------------------------------------------- values and helpers

Size(w, h) == [width |-> w, height |-> h]
Vector2(x, y) == [x |-> x, y |-> y]
Thickness(l, t, r, b) ==
    [leftPixels |-> l, topPixels |-> t, rightPixels |-> r, bottomPixels |-> b]

\* Math.max
MathMax(a, b) == IF a >= b THEN a ELSE b

\* JavaScript null / NaN for the numbers handed to the res callback of _parse.
\* Parsed numbers are never negative here (the alphabet has no sign), so two
\* negative integers stand for the two non-numbers.
NaN == -1
Null == -2

\* A null reference to an engine (the statics _horizontal and _vertical).
NullRef == 0

\* GridDimensionDefinition.Pixels / Stars / Auto
Pixels == 1
Stars == 2
Auto == 3

\* --------------------------------------------------------------- the prims

Nodes == 1 .. 4

\* The Canvas2D: the root of the tree and the owner of every prim.
Root == 1

VARIABLES
    prims,           \* the prims of the tree
    children,        \* prim.children, in tree child order
    actualSize,      \* prim.actualSize
    margin,          \* prim.margin
    contentArea,     \* prim.contentArea
    externalData,    \* prim.getExternalData("grid"): a PrimitiveGridInfo or null
    layoutArea,      \* prim.layoutArea
    layoutAreaPos,   \* prim.layoutAreaPos
    flagLayoutDirty, \* prim._isFlagSet(SmartPropertyPrim.flagLayoutDirty)
    heap,            \* the engine instances constructed so far
    _horizontal,     \* StackPanelLayoutEngine._horizontal
    _vertical,       \* StackPanelLayoutEngine._vertical
    call,            \* the last call made on the module, with what it returned
    value,           \* the dimension string under test (parsing specification)
    core,            \* the string `value` was derived from by padding / case
    parsed           \* what _parse handed to res for `value`

primVars == <<prims, children, actualSize, margin, contentArea, externalData>>
layoutVars == <<layoutArea, layoutAreaPos, flagLayoutDirty>>
engineVars == <<heap, _horizontal, _vertical>>
parseVars == <<value, core, parsed>>
vars == <<primVars, layoutVars, engineVars, call, parseVars>>

\* prim.parent: the prim whose children hold n (0 for the root).
Parent(n) ==
    IF \E p \in Nodes : \E i \in 1 .. Len(children[p]) : children[p][i] = n
    THEN CHOOSE p \in Nodes : \E i \in 1 .. Len(children[p]) : children[p][i] = n
    ELSE 0

\* prim instanceof Canvas2D
IsCanvas2D(n) == n = Root

\* prim.owner: the Canvas2D the prim belongs to.
Owner(n) == Root

\* The set of prims in a children list.
Range(s) == {s[i] : i \in 1 .. Len(s)}

\* ------------------------------------------------- GridDimensionDefinition
\* A string is a sequence of one-character strings.

Letters == {"a", "u", "t", "o", "x"}
Uppers == {"A", "U", "T", "O", "X"}

LowerChar(c) ==
    CASE c = "A" -> "a" [] c = "U" -> "u" [] c = "T" -> "t"
      [] c = "O" -> "o" [] c = "X" -> "x" [] OTHER -> c

UpperChar(c) ==
    CASE c = "a" -> "A" [] c = "u" -> "U" [] c = "t" -> "T"
      [] c = "o" -> "O" [] c = "x" -> "X" [] OTHER -> c

\* String.prototype.toLocaleLowerCase
ToLocaleLowerCase(s) == [i \in 1 .. Len(s) |-> LowerChar(s[i])]

IsWhiteSpace(c) == c = " "

RECURSIVE TrimStart(_)
TrimStart(s) ==
    IF s # <<>> /\ IsWhiteSpace(Head(s)) THEN TrimStart(Tail(s)) ELSE s

RECURSIVE TrimEnd(_)
TrimEnd(s) ==
    IF s # <<>> /\ IsWhiteSpace(s[Len(s)])
    THEN TrimEnd(SubSeq(s, 1, Len(s) - 1))
    ELSE s

\* String.prototype.trim
Trim(s) == TrimEnd(TrimStart(s))

\* String.prototype.indexOf: the 0-based index of the first occurrence, or -1.
IndexOf(s, sub) ==
    LET hits == {i \in 0 .. Len(s) - Len(sub) :
                    SubSeq(s, i + 1, i + Len(sub)) = sub}
    IN  IF hits = {} THEN -1
        ELSE CHOOSE i \in hits : \A j \in hits : i <= j

\* String.prototype.substr(start, length)
Substr(s, start, length) == SubSeq(s, start + 1, start + length)

IsDigit(c) == c \in {"0", "1", "2", "3", "4", "5", "6", "7", "8", "9"}

DigitValue(c) ==
    CASE c = "0" -> 0 [] c = "1" -> 1 [] c = "2" -> 2 [] c = "3" -> 3
      [] c = "4" -> 4 [] c = "5" -> 5 [] c = "6" -> 6 [] c = "7" -> 7
      [] c = "8" -> 8 [] c = "9" -> 9

\* The number of leading digits of s.
RECURSIVE DigitPrefixLen(_)
DigitPrefixLen(s) ==
    IF s # <<>> /\ IsDigit(Head(s)) THEN 1 + DigitPrefixLen(Tail(s)) ELSE 0

RECURSIVE DecimalValue(_)
DecimalValue(s) ==
    IF s = <<>> THEN 0
    ELSE 10 * DecimalValue(SubSeq(s, 1, Len(s) - 1)) + DigitValue(s[Len(s)])

\* parseFloat, on strings of digits, blanks, letters and "*": leading white
\* space is skipped, the longest prefix that is a decimal literal is the
\* value, and there is none the result is NaN.
ParseFloat(s) ==
    LET t == TrimStart(s)
        k == DigitPrefixLen(t)
    IN  IF k = 0 THEN NaN ELSE DecimalValue(SubSeq(t, 1, k))

\* Faulty variant of _parse: the string is neither lowercased nor trimmed.
ParseNoNormalize(val) ==
    LET v == val
    IN  IF IndexOf(v, <<"a", "u", "t", "o">>) = 0
        THEN [v |-> Null, vp |-> Null, t |-> Auto]
        ELSE IF IndexOf(v, <<"*">>) # -1
        THEN LET i == IndexOf(v, <<"*">>)
                 w == ParseFloat(Substr(v, 0, i))
             IN  [v |-> w, vp |-> Null, t |-> Stars]
        ELSE LET w == ParseFloat(v)
             IN  [v |-> w, vp |-> w, t |-> Pixels]

\* Faulty variant of _parse: the test for "*" comes before the one for "auto".
ParseStarsFirst(val) ==
    LET v == Trim(ToLocaleLowerCase(val))
    IN  IF IndexOf(v, <<"*">>) # -1
        THEN LET i == IndexOf(v, <<"*">>)
                 w == ParseFloat(Substr(v, 0, i))
             IN  [v |-> w, vp |-> Null, t |-> Stars]
        ELSE IF IndexOf(v, <<"a", "u", "t", "o">>) = 0
        THEN [v |-> Null, vp |-> Null, t |-> Auto]
        ELSE LET w == ParseFloat(v)
             IN  [v |-> w, vp |-> w, t |-> Pixels]

\* GridDimensionDefinition._parse: the arguments (v, vp, t) it hands to res.
_parse(val) ==
    LET v == Trim(ToLocaleLowerCase(val))
    IN  IF IndexOf(v, <<"a", "u", "t", "o">>) = 0
        THEN [v |-> Null, vp |-> Null, t |-> Auto]
        ELSE IF IndexOf(v, <<"*">>) # -1
        THEN LET i == IndexOf(v, <<"*">>)
                 w == ParseFloat(Substr(v, 0, i))
             IN  [v |-> w, vp |-> Null, t |-> Stars]
        ELSE LET w == ParseFloat(v)
             IN  [v |-> w, vp |-> w, t |-> Pixels]

\* --------------------------------------------------------------- the engines
\* An engine instance: its class and the private fields of the three classes
\* (a field a class does not have keeps its initial value).  _isLocked is
\* declared without an initializer: FALSE stands for the falsy undefined it
\* holds until lock() sets it.

NullCells == [isNull |-> TRUE, table |-> <<>>]

NoEngine ==
    [cls |-> "none", _isLocked |-> FALSE, _isHorizontal |-> TRUE,
     _rows |-> <<>>, _columns |-> <<>>, _cells |-> NullCells]

EngineIds == 1 .. MaxEngines

Constructed == {e \in EngineIds : heap[e].cls # "none"}
FreeIds == {e \in EngineIds : heap[e].cls = "none"}
NextId == CHOOSE e \in FreeIds : \A f \in FreeIds : e <= f

\* new CanvasLayoutEngine()
NewCanvasLayoutEngine == [NoEngine EXCEPT !.cls = "Canvas"]

\* new StackPanelLayoutEngine(): _isHorizontal is initialized to true.
NewStackPanelLayoutEngine ==
    [NoEngine EXCEPT !.cls = "Stack", !._isHorizontal = TRUE]

\* The rows (or columns) of a new GridPanelLayoutEngine: each specification
\* string parsed into its definition, in the order given.
ParseDefinitions(specs) == [i \in 1 .. Len(specs) |-> _parse(specs[i])]

\* new GridPanelLayoutEngine(settings)
NewGridPanelLayoutEngine(settings) ==
    [NoEngine EXCEPT !.cls = "Grid",
                     !._cells = NullCells,
                     !._rows = ParseDefinitions(settings.rows),
                     !._columns = ParseDefinitions(settings.columns)]

\* LayoutEngineBase.isLocked
isLocked(eng) == eng._isLocked

\* Faulty variant of lock: a second call unlocks.
LockToggles(eng) ==
    IF eng._isLocked
    THEN [eng |-> [eng EXCEPT !._isLocked = FALSE], ret |-> FALSE]
    ELSE [eng |-> [eng EXCEPT !._isLocked = TRUE], ret |-> TRUE]

\* LayoutEngineBase.lock: the instance after the call and the value returned.
lock(eng) ==
    IF eng._isLocked
    THEN [eng |-> eng, ret |-> FALSE]
    ELSE [eng |-> [eng EXCEPT !._isLocked = TRUE], ret |-> TRUE]

\* Faulty variant of set_isHorizontal: the lock is not tested.
SetIsHorizontalUnguarded(eng, val) == [eng EXCEPT !._isHorizontal = val]

\* StackPanelLayoutEngine: set isHorizontal(val)

set_isHorizontal(eng, val) ==
    IF isLocked(eng) THEN eng ELSE [eng EXCEPT !._isHorizontal = val]

\* Faulty variant of MustCreate: every access constructs an instance.
AlwaysCreate(ref) == TRUE

\* The test `!StackPanelLayoutEngine._horizontal` (and _vertical) that guards
\* the creation of a singleton.

MustCreate(ref) == ref = NullRef

\* Faulty variant of NewSingleton: lock() is not called.
SingletonNeverLocked(horizontal) ==
    set_isHorizontal(NewStackPanelLayoutEngine, horizontal)

\* The instance a singleton accessor constructs: a new engine, its
\* orientation set through the setter, then locked.

NewSingleton(horizontal) ==
    lock(set_isHorizontal(NewStackPanelLayoutEngine, horizontal)).eng

\* ------------------------------------------------------- CanvasLayoutEngine

\* Faulty variant of _doUpdate: every prim gets the size of the canvas.
DoUpdateAlwaysOwner(prim) == actualSize[Owner(prim)]

\* CanvasLayoutEngine._doUpdate(prim): the layoutArea it gives prim.

_doUpdate(prim) ==
    IF IsCanvas2D(prim) THEN actualSize[prim]
    ELSE IF IsCanvas2D(Parent(prim)) THEN actualSize[Owner(prim)]
    ELSE contentArea[Parent(prim)]

\* Faulty variant of IsLayoutDirty: the layout is recomputed on every call.
IgnoreFlag(prim) == TRUE

\* The test of the layout-dirty flag that opens every updateLayout.

IsLayoutDirty(prim) == flagLayoutDirty[prim]

\* Faulty variant of ClearLayoutDirty: the flag is not cleared.
KeepLayoutDirty(prim) == flagLayoutDirty

\* prim._clearFlags(SmartPropertyPrim.flagLayoutDirty)
ClearLayoutDirty(prim) == [flagLayoutDirty EXCEPT ![prim] = FALSE]

\* Faulty variant of CanvasUpdateLayout: the children are also given the
\* position (0, 0), as a strategy that computes positions would do.
CanvasUpdateLayoutPlaces(prim) ==
    IF IsLayoutDirty(prim)
    THEN /\ layoutArea' =
               [n \in Nodes |->
                   IF n \in Range(children[prim]) THEN _doUpdate(n)
                   ELSE layoutArea[n]]
         /\ layoutAreaPos' =
               [n \in Nodes |->
                   IF n \in Range(children[prim]) THEN Vector2(0, 0)
                   ELSE layoutAreaPos[n]]
         /\ flagLayoutDirty' = ClearLayoutDirty(prim)
    ELSE UNCHANGED layoutVars

\* CanvasLayoutEngine.updateLayout(prim)
CanvasUpdateLayout(prim) ==
    IF IsLayoutDirty(prim)
    THEN /\ layoutArea' =
               [n \in Nodes |->
                   IF n \in Range(children[prim]) THEN _doUpdate(n)
                   ELSE layoutArea[n]]
         /\ flagLayoutDirty' = ClearLayoutDirty(prim)
         /\ UNCHANGED layoutAreaPos
    ELSE UNCHANGED layoutVars

\* --------------------------------------------------- StackPanelLayoutEngine

\* PrimitiveThickness.computeArea(sourceArea, result): the size written into
\* result, the source area grown by the margin on each side.
ComputeArea(m, sourceArea) ==
    Size(m.leftPixels + sourceArea.width + m.rightPixels,
         m.bottomPixels + sourceArea.height + m.topPixels)

\* Faulty variant of MeasuredArea: computeArea writes the width only, and the
\* height left in the child's layoutArea by an earlier pass is kept.
MeasuredAreaKeepsHeight(child) ==
    Size(ComputeArea(margin[child], actualSize[child]).width,
         layoutArea[child].height)

\* First loop: computeArea writes each child's margin-adjusted area into the
\* child's layoutArea.
MeasuredArea(child) == ComputeArea(margin[child], actualSize[child])

\* Faulty variant of StackMax: the maximum is taken along the main axis.
RECURSIVE StackMaxMainAxis(_, _)
StackMaxMainAxis(h, kids) ==
    IF kids = <<>> THEN 0
    ELSE LET last == kids[Len(kids)]
             la == MeasuredArea(last)
         IN  MathMax(StackMaxMainAxis(h, SubSeq(kids, 1, Len(kids) - 1)),
                     IF h THEN la.width ELSE la.height)

\* First loop: max, folded over the children with Math.max from 0.
RECURSIVE StackMax(_, _)
StackMax(h, kids) ==
    IF kids = <<>> THEN 0
    ELSE LET last == kids[Len(kids)]
             la == MeasuredArea(last)
         IN  MathMax(StackMax(h, SubSeq(kids, 1, Len(kids) - 1)),
                     IF h THEN la.height ELSE la.width)

\* Faulty variant of StackCursor: x = width instead of x += width.
StackCursorPreviousOnly(h, kids, i) ==
    IF i = 1 THEN 0
    ELSE LET la == MeasuredArea(kids[i - 1])
         IN  IF h THEN la.width ELSE la.height

\* Second loop: the value of the running x (h) or y (not h) when the i-th
\* child is reached: the sum of the main-axis extents of the children before.
RECURSIVE StackCursor(_, _, _)
StackCursor(h, kids, i) ==
    IF i = 1 THEN 0
    ELSE LET la == MeasuredArea(kids[i - 1])
         IN  StackCursor(h, kids, i - 1) + (IF h THEN la.width ELSE la.height)

\* Second loop: new Vector2(x, y) for the i-th child.
StackPos(h, kids, i) ==
    IF h THEN Vector2(StackCursor(h, kids, i), 0)
    ELSE Vector2(0, StackCursor(h, kids, i))

\* Second loop: the new Size given to the child.
StackArea(h, kids, child) ==
    LET la == MeasuredArea(child)
        max == StackMax(h, kids)
    IN  IF h THEN Size(la.width, max) ELSE Size(max, la.height)

\* The index of a child in a children list.
IndexIn(kids, child) == CHOOSE i \in 1 .. Len(kids) : kids[i] = child

\* Faulty variant of StackUpdateLayout: the second loop also runs on the
\* children of the children, which are stacked in their parents.
StackUpdateLayoutDeep(eng, prim) ==
    IF IsLayoutDirty(prim)
    THEN LET h == eng._isHorizontal
             kids == children[prim]
             deep(n) == Parent(n) # 0 /\ Parent(n) # prim
                           /\ Parent(n) \in Range(kids)
         IN  /\ layoutAreaPos' =
                   [n \in Nodes |->
                       IF n \in Range(kids)
                       THEN StackPos(h, kids, IndexIn(kids, n))
                       ELSE IF deep(n)
                       THEN StackPos(h, children[Parent(n)],
                                     IndexIn(children[Parent(n)], n))
                       ELSE layoutAreaPos[n]]
             /\ layoutArea' =
                   [n \in Nodes |->
                       IF n \in Range(kids) THEN StackArea(h, kids, n)
                       ELSE IF deep(n)
                       THEN StackArea(h, children[Parent(n)], n)
                       ELSE layoutArea[n]]
             /\ flagLayoutDirty' = ClearLayoutDirty(prim)
    ELSE UNCHANGED layoutVars

\* StackPanelLayoutEngine.updateLayout(prim), on the instance eng
StackUpdateLayout(eng, prim) ==
    IF IsLayoutDirty(prim)
    THEN LET h == eng._isHorizontal
             kids == children[prim]
         IN  /\ layoutAreaPos' =
                   [n \in Nodes |->
                       IF n \in Range(kids)
                       THEN StackPos(h, kids, IndexIn(kids, n))
                       ELSE layoutAreaPos[n]]
             /\ layoutArea' =
                   [n \in Nodes |->
                       IF n \in Range(kids) THEN StackArea(h, kids, n)
                       ELSE layoutArea[n]]
             /\ flagLayoutDirty' = ClearLayoutDirty(prim)
    ELSE UNCHANGED layoutVars

\* ---------------------------------------------------- GridPanelLayoutEngine

\* new PrimitiveGridInfo(row, column): rowSpan and columnSpan default to 1.
PrimitiveGridInfo(row, column) ==
    [isNull |-> FALSE, row |-> row, column |-> column,
     rowSpan |-> 1, columnSpan |-> 1]

\* getExternalData("grid") of a prim that has no such data.
NullGridInfo ==
    [isNull |-> TRUE, row |-> 0, column |-> 0, rowSpan |-> 0, columnSpan |-> 0]

\* The rows x columns table of CellInfo that _updateCellsList allocates.
CellTable(eng) ==
    [isNull |-> FALSE,
     table |-> [i \in 1 .. Len(eng._rows) |->
                   [j \in 1 .. Len(eng._columns) |-> "CellInfo"]]]

\* `this._cells[pgi.row][pgi.column]` throws a TypeError when pgi is null and
\* when the table has no row pgi.row; a column outside the row reads undefined.
CellLookupThrows(cells, pgi) ==
    \/ pgi.isNull
    \/ pgi.row \notin 0 .. Len(cells.table) - 1

\* Faulty variant of _updateCellsList: the `if (this._cells) return` guard is
\* missing, so every call builds the table and looks the children up again.
UpdateCellsListRebuilds(eng, prim) ==
    LET built == [eng EXCEPT !._cells = CellTable(eng)]
    IN  [eng |-> built,
         threw |-> \E child \in Range(children[prim]) :
                      CellLookupThrows(built._cells, externalData[child])]

\* GridPanelLayoutEngine._updateCellsList(prim): the instance after the call
\* and whether the call threw.
_updateCellsList(eng, prim) ==
    IF ~eng._cells.isNull
    THEN [eng |-> eng, threw |-> FALSE]
    ELSE LET built == [eng EXCEPT !._cells = CellTable(eng)]
         IN  [eng |-> built,
              threw |-> \E child \in Range(children[prim]) :
                           CellLookupThrows(built._cells, externalData[child])]

\* GridPanelLayoutEngine._updateConstants(prim): the locals totalStars and
\* totalPixels after the loop over the first k rows.  null adds as 0 and NaN
\* makes the sum NaN.
JsAdd(a, b) ==
    IF a = NaN \/ b = NaN THEN NaN
    ELSE (IF a = Null THEN 0 ELSE a) + (IF b = Null THEN 0 ELSE b)

RECURSIVE TotalStars(_, _)
TotalStars(rows, k) ==
    IF k = 0 THEN 0
    ELSE IF rows[k].t = Stars
    THEN JsAdd(TotalStars(rows, k - 1), rows[k].v)
    ELSE TotalStars(rows, k - 1)

RECURSIVE TotalPixels(_, _)
TotalPixels(rows, k) ==
    IF k = 0 THEN 0
    ELSE IF rows[k].t \in {Pixels, Auto}
    THEN JsAdd(TotalPixels(rows, k - 1), rows[k].vp)
    ELSE TotalPixels(rows, k - 1)

\* _updateConstants keeps its totals in locals and writes nothing.
_updateConstants(eng, prim) == eng

\* GridPanelLayoutEngine.updateLayout(prim), on the instance e: an exception
\* of _updateCellsList leaves through updateLayout, before the flag is cleared.
GridUpdateLayout(e, prim) ==
    IF IsLayoutDirty(prim)
    THEN LET r == _updateCellsList(heap[e], prim)
         IN  IF r.threw
             THEN /\ heap' = [heap EXCEPT ![e] = r.eng]
                  /\ UNCHANGED layoutVars
             ELSE /\ heap' = [heap EXCEPT ![e] = _updateConstants(r.eng, prim)]
                  /\ flagLayoutDirty' = ClearLayoutDirty(prim)
                  /\ UNCHANGED <<layoutArea, layoutAreaPos>>
    ELSE UNCHANGED <<heap, layoutVars>>

\* Whether updateLayout(prim) on the instance e ends by an exception.
UpdateLayoutThrows(e, prim) ==
    /\ heap[e].cls = "Grid"
    /\ IsLayoutDirty(prim)
    /\ _updateCellsList(heap[e], prim).threw

\* ------------------------------------------------------------------ scenes
\* The trees the engines are run on.  Prim 1 is the Canvas2D.

\* A root with one direct child.
ShapeSingle == [n \in Nodes |-> CASE n = 1 -> <<2>> [] OTHER -> <<>>]

\* A root, one direct child and two grandchildren.
ShapeNested ==
    [n \in Nodes |-> CASE n = 1 -> <<2>> [] n = 2 -> <<3, 4>> [] OTHER -> <<>>]

\* A root with three direct children.
ShapeFlat ==
    [n \in Nodes |-> CASE n = 1 -> <<2, 3, 4>> [] OTHER -> <<>>]

\* A root with two direct children, the first of which has one child.
ShapeMixed ==
    [n \in Nodes |-> CASE n = 1 -> <<3, 2>> [] n = 3 -> <<4>> [] OTHER -> <<>>]

Shapes == {ShapeNested, ShapeFlat, ShapeMixed}

SceneActualSize ==
    [n \in Nodes |->
        CASE n = 1 -> Size(9, 8) [] n = 2 -> Size(4, 3)
          [] n = 3 -> Size(5, 2) [] n = 4 -> Size(3, 4)]

SceneContentArea ==
    [n \in Nodes |->
        CASE n = 1 -> Size(8, 7) [] n = 2 -> Size(3, 2)
          [] n = 3 -> Size(4, 1) [] n = 4 -> Size(2, 3)]

NoMargins == [n \in Nodes |-> Thickness(0, 0, 0, 0)]

SomeMargins ==
    [n \in Nodes |->
        CASE n = 1 -> Thickness(0, 0, 0, 0) [] n = 2 -> Thickness(1, 0, 0, 0)
          [] n = 3 -> Thickness(0, 2, 0, 1) [] n = 4 -> Thickness(1, 0, 1, 0)]

Margins == {NoMargins, SomeMargins}

\* Every child carries grid placement data.
PlacedGridData ==
    [n \in Nodes |->
        CASE n = 4 -> PrimitiveGridInfo(1, 0) [] OTHER -> PrimitiveGridInfo(0, 0)]

\* Prim 2 / prim 4 carries none.
Missing2GridData == [PlacedGridData EXCEPT ![2] = NullGridInfo]
Missing4GridData == [PlacedGridData EXCEPT ![4] = NullGridInfo]

\* Prim 2 names a row / a column that no table of GridSettings has.
BadRowGridData == [PlacedGridData EXCEPT ![2] = PrimitiveGridInfo(5, 0)]
BadColumnGridData == [PlacedGridData EXCEPT ![2] = PrimitiveGridInfo(0, 5)]

\* What an earlier layout pass left in layoutArea and layoutAreaPos.
PriorArea == Size(7, 7)
PriorPos == Vector2(6, 6)

\* The settings a GridPanelLayoutEngine is constructed with.
TwoRowSettings ==
    [rows |-> << <<"2", "*">>, <<"a", "u", "t", "o">> >>,
     columns |-> << <<"1", "0", "0">> >>]

OneRowSettings ==
    [rows |-> << <<"1">> >>,
     columns |-> << <<" ", "A", "U", "T", "O">>, <<"1", "*">> >>]

\* ------------------------------------------------------------------- calls

\* The last call: the operation, the instance it was made on (for an accessor
\* or a constructor, the instance returned), the prim and the argument passed
\* (for updateLayout, also whether the prim was dirty at the call), and the
\* result: a returned boolean, "void", or "throw" for an exception.
Call(op, e, prim, arg, ret) ==
    [op |-> op, e |-> e, prim |-> prim, arg |-> arg, ret |-> ret]

NoCall == Call("none", 0, 0, "", "void")

NotParsed == [v |-> Null, vp |-> Null, t |-> 0]

\* -------------------------------------------------------------------- Init

\* The tree: its prims, shape, margins and grid placement data.
InitScene(ps, shape, margins, data) ==
    /\ prims = ps
    /\ children = shape
    /\ actualSize = SceneActualSize
    /\ contentArea = SceneContentArea
    /\ margin = margins
    /\ externalData = data
    /\ layoutArea = [n \in Nodes |-> PriorArea]
    /\ layoutAreaPos = [n \in Nodes |-> PriorPos]
    /\ flagLayoutDirty = [n \in Nodes |-> n \in ps]
    /\ call = NoCall

\* The statics at program start:
\* public static Singleton: CanvasLayoutEngine = new CanvasLayoutEngine()
\* private static _horizontal = null, _vertical = null
InitEngines ==
    /\ heap = [e \in EngineIds |->
                  IF e = 1 THEN NewCanvasLayoutEngine ELSE NoEngine]
    /\ _horizontal = NullRef
    /\ _vertical = NullRef

InitNoParse ==
    /\ value = <<>>
    /\ core = <<>>
    /\ parsed = NotParsed

\* Program start, with a tree of a root and one child that carries no grid
\* placement data.
Init ==
    /\ InitScene({1, 2}, ShapeSingle, SomeMargins, Missing2GridData)
    /\ InitEngines
    /\ InitNoParse

\* A tree of four prims, with the CanvasLayoutEngine.Singleton and one more
\* engine: a Stack singleton just created by its accessor, a Stack engine or
\* a Grid engine just constructed.
LayoutInit ==
    /\ \E shape \in Shapes, margins \in Margins,
          data \in {PlacedGridData, Missing4GridData, BadRowGridData,
                    BadColumnGridData} :
          InitScene(Nodes, shape, margins, data)
    /\ \E eng \in {NewSingleton(TRUE), NewSingleton(FALSE),
                    NewStackPanelLayoutEngine,
                    NewGridPanelLayoutEngine(TwoRowSettings),
                    NewGridPanelLayoutEngine(OneRowSettings)} :
          /\ heap = [e \in EngineIds |->
                        CASE e = 1 -> NewCanvasLayoutEngine
                          [] e = 2 -> eng
                          [] OTHER -> NoEngine]
          /\ _horizontal = IF eng = NewSingleton(TRUE) THEN 2 ELSE NullRef
          /\ _vertical = IF eng = NewSingleton(FALSE) THEN 2 ELSE NullRef
          \* the data matters to a Grid engine only
          /\ eng.cls # "Grid" => externalData = PlacedGridData
    /\ InitNoParse

\* ----------------------------------------------------------------- actions

\* new StackPanelLayoutEngine()
ConstructStack ==
    /\ FreeIds # {}
    /\ heap' = [heap EXCEPT ![NextId] = NewStackPanelLayoutEngine]
    /\ call' = Call("new StackPanelLayoutEngine", NextId, 0, "", "void")
    /\ UNCHANGED <<primVars, layoutVars, _horizontal, _vertical, parseVars>>

\* new GridPanelLayoutEngine(settings)
ConstructGrid(settings) ==
    /\ FreeIds # {}
    /\ heap' = [heap EXCEPT ![NextId] = NewGridPanelLayoutEngine(settings)]
    /\ call' = Call("new GridPanelLayoutEngine", NextId, 0, "", "void")
    /\ UNCHANGED <<primVars, layoutVars, _horizontal, _vertical, parseVars>>

\* StackPanelLayoutEngine.Horizontal
GetHorizontal ==
    /\ IF MustCreate(_horizontal)
       THEN /\ FreeIds # {}
            /\ heap' = [heap EXCEPT ![NextId] = NewSingleton(TRUE)]
            /\ _horizontal' = NextId
       ELSE UNCHANGED <<heap, _horizontal>>
    /\ call' = Call("Horizontal", _horizontal', 0, "", "void")
    /\ UNCHANGED <<primVars, layoutVars, _vertical, parseVars>>

\* StackPanelLayoutEngine.Vertical
GetVertical ==
    /\ IF MustCreate(_vertical)
       THEN /\ FreeIds # {}
            /\ heap' = [heap EXCEPT ![NextId] = NewSingleton(FALSE)]
            /\ _vertical' = NextId
       ELSE UNCHANGED <<heap, _vertical>>
    /\ call' = Call("Vertical", _vertical', 0, "", "void")
    /\ UNCHANGED <<primVars, layoutVars, _horizontal, parseVars>>

\* e.lock()
Lock(e) ==
    /\ e \in Constructed
    /\ heap' = [heap EXCEPT ![e] = lock(heap[e]).eng]
    /\ call' = Call("lock", e, 0, "",
                    IF lock(heap[e]).ret THEN "true" ELSE "false")
    /\ UNCHANGED <<primVars, layoutVars, _horizontal, _vertical, parseVars>>

\* e.isHorizontal = val
SetIsHorizontal(e, val) ==
    /\ e \in Constructed
    /\ heap[e].cls = "Stack"
    /\ heap' = [heap EXCEPT ![e] = set_isHorizontal(heap[e], val)]
    /\ call' = Call("set isHorizontal", e, 0,
                    IF val THEN "true" ELSE "false", "void")
    /\ UNCHANGED <<primVars, layoutVars, _horizontal, _vertical, parseVars>>

\* e.updateLayout(prim)
UpdateLayout(e, prim) ==
    /\ e \in Constructed
    /\ call' = Call("updateLayout", e, prim,
                    IF flagLayoutDirty[prim] THEN "dirty" ELSE "clean",
                    IF UpdateLayoutThrows(e, prim) THEN "throw" ELSE "void")
    /\ CASE heap[e].cls = "Canvas" ->
              CanvasUpdateLayout(prim) /\ UNCHANGED heap
         [] heap[e].cls = "Stack" ->
              StackUpdateLayout(heap[e], prim) /\ UNCHANGED heap
         [] heap[e].cls = "Grid" ->
              GridUpdateLayout(e, prim)
    /\ UNCHANGED <<primVars, _horizontal, _vertical, parseVars>>

\* The tree walker's side: a structural or size change marks a prim dirty.
MarkDirty(prim) ==
    /\ ~flagLayoutDirty[prim]
    /\ flagLayoutDirty' = [flagLayoutDirty EXCEPT ![prim] = TRUE]
    /\ call' = NoCall
    /\ UNCHANGED <<primVars, layoutArea, layoutAreaPos, engineVars, parseVars>>

Next ==
    \/ ConstructStack
    \/ ConstructGrid(TwoRowSettings)
    \/ GetHorizontal
    \/ GetVertical
    \/ \E e \in EngineIds : Lock(e)
    \/ \E e \in EngineIds, val \in BOOLEAN : SetIsHorizontal(e, val)
    \/ \E e \in EngineIds, prim \in prims : UpdateLayout(e, prim)
    \/ \E prim \in prims : MarkDirty(prim)

Spec == Init /\ [][Next]_vars

LayoutNext ==
    \/ \E e \in EngineIds, val \in BOOLEAN : SetIsHorizontal(e, val)
    \/ \E e \in EngineIds, prim \in prims : UpdateLayout(e, prim)
    \/ \E prim \in prims : MarkDirty(prim)

LayoutSpec == LayoutInit /\ [][LayoutNext]_vars

\* ------------------------------------------------ parsing dimension strings
\* _parse applied to specification strings: a core string, blanks added on
\* either side of it and letters of it changed in case.  `parsed` is what
\* _parse handed to res for the current `value`, once Parse has run on it.

CoreAlphabet == {"1", "2", "*", " ", "a", "x"}

RECURSIVE StringsUpTo(_)
StringsUpTo(n) ==
    IF n = 0 THEN {<<>>}
    ELSE StringsUpTo(n - 1)
         \cup {Append(s, c) : s \in StringsUpTo(n - 1), c \in CoreAlphabet}

NamedCores ==
    {<<"1", "0", "0">>, <<"2", "*">>, <<"a", "u", "t", "o">>,
     <<"a", "u", "t">>, <<"a", "u", "t", "o", "*">>, <<"*", "a", "u", "t", "o">>,
     <<"1", "a", "u", "t", "o">>, <<"a", "u", "t", "o", "1">>,
     <<"1", "0", "*", "2">>, <<"1", " ", "0">>}

Cores == StringsUpTo(MaxLen) \cup NamedCores

ParseInit ==
    /\ InitScene({1, 2}, ShapeSingle, SomeMargins, PlacedGridData)
    /\ InitEngines
    /\ core \in Cores
    /\ value = core
    /\ parsed = NotParsed

mainVars == <<primVars, layoutVars, engineVars, call>>

PadLeft ==
    /\ Len(value) < Len(core) + 2 * MaxPad
    /\ value' = <<" ">> \o value
    /\ parsed' = NotParsed
    /\ UNCHANGED <<mainVars, core>>

PadRight ==
    /\ Len(value) < Len(core) + 2 * MaxPad
    /\ value' = value \o <<" ">>
    /\ parsed' = NotParsed
    /\ UNCHANGED <<mainVars, core>>

ChangeCase(i) ==
    /\ i \in 1 .. Len(value)
    /\ value[i] \in Letters \cup Uppers
    /\ value' = [value EXCEPT ![i] = IF value[i] \in Letters
                                     THEN UpperChar(value[i])
                                     ELSE LowerChar(value[i])]
    /\ parsed' = NotParsed
    /\ UNCHANGED <<mainVars, core>>

\* r._parse(value, res)
Parse ==
    /\ parsed' = _parse(value)
    /\ UNCHANGED <<mainVars, core, value>>

ParseNext ==
    \/ PadLeft
    \/ PadRight
    \/ \E i \in 1 .. MaxLen + 2 + 2 * MaxPad : ChangeCase(i)
    \/ Parse

ParseSpec == ParseInit /\ [][ParseNext]_vars

\* ------------------------------------------------------------------ claims

\* What updateLayout may act on: everything but the record of the call.
stateVars == <<primVars, layoutVars, engineVars>>

\* The last call was updateLayout, made with an engine of class cls.
UpdatedBy(cls) == call.op = "updateLayout" /\ heap[call.e].cls = cls

\* C1: for each of the three strategies and every prim (also one without
\* children), after an updateLayout(prim) call that returned normally the
\* layout-dirty flag of prim is false.
C1_FlagClearAfterUpdate ==
    (call.op = "updateLayout" /\ call.ret = "void")
        => ~flagLayoutDirty[call.prim]

\* C1 witness: a Stack engine has just run on a dirty prim without children
\* and returned.
C1_Witness ==
    /\ UpdatedBy("Stack")
    /\ call.arg = "dirty"
    /\ call.ret = "void"
    /\ children[call.prim] = <<>>
    /\ ~flagLayoutDirty[call.prim]

\* C2: updateLayout(prim) called while the flag of prim is clear changes
\* nothing, for every strategy: no flag, no layoutArea or layoutAreaPos, and
\* nothing of any engine (lock, orientation, cell table).  Hence an
\* updateLayout that follows a call that returned normally on the same prim,
\* with nothing in between, changes nothing either.
C2_NoOpWhenClean ==
    [][/\ (call'.op = "updateLayout" /\ ~flagLayoutDirty[call'.prim])
            => UNCHANGED stateVars
       /\ (/\ call.op = "updateLayout" /\ call.ret = "void"
           /\ call'.op = "updateLayout" /\ call'.prim = call.prim)
            => UNCHANGED stateVars]_vars

\* C2 witness: updateLayout has just been called on a clean prim whose
\* children an earlier pass of another strategy had laid out.
C2_Witness ==
    /\ UpdatedBy("Stack")
    /\ call.arg = "clean"
    /\ children[call.prim] # <<>>
    /\ \E c \in Range(children[call.prim]) : layoutAreaPos[c] = PriorPos
    /\ \E c \in Range(children[call.prim]) : layoutArea[c] # PriorArea

\* C3: lock() returns true exactly when the instance was not locked, leaves
\* the instance locked, and on a locked instance changes nothing; a newly
\* constructed engine is not locked; and an instance that is locked is still
\* locked after any call.
C3_LockOneWay ==
    [][/\ \A e \in EngineIds :
             (heap[e].cls # "none" /\ isLocked(heap[e]))
                 => (heap'[e].cls = heap[e].cls /\ isLocked(heap'[e]))
       /\ call'.op = "lock"
            => /\ call'.ret = (IF isLocked(heap[call'.e]) THEN "false" ELSE "true")
               /\ isLocked(heap'[call'.e])
               /\ isLocked(heap[call'.e]) => UNCHANGED stateVars
       /\ call'.op \in {"new StackPanelLayoutEngine", "new GridPanelLayoutEngine"}
            => (heap[call'.e].cls = "none" => ~isLocked(heap'[call'.e]))]_vars

\* C3 witness: lock() has just returned false on an engine constructed by
\* the caller, which is locked.
C3_Witness ==
    /\ call.op = "lock"
    /\ call.ret = "false"
    /\ call.e \notin {1, _horizontal, _vertical}
    /\ isLocked(heap[call.e])

\* C4: a locked instance keeps its orientation and its row and column
\* definitions through every call; the isHorizontal setter never throws, on
\* a locked Stack engine it changes nothing and on an unlocked one it sets
\* the orientation; the row and column definitions of a Grid engine are
\* changed by no call at all.
C4_LockedConfigurationFrozen ==
    [][/\ \A e \in EngineIds :
             (heap[e].cls # "none" /\ isLocked(heap[e]))
                 => /\ heap'[e]._isHorizontal = heap[e]._isHorizontal
                    /\ heap'[e]._rows = heap[e]._rows
                    /\ heap'[e]._columns = heap[e]._columns
       /\ \A e \in EngineIds :
             heap[e].cls = "Grid"
                 => /\ heap'[e]._rows = heap[e]._rows
                    /\ heap'[e]._columns = heap[e]._columns
       /\ call'.op = "set isHorizontal"
            => /\ call'.ret = "void"
               /\ isLocked(heap[call'.e]) => UNCHANGED stateVars
               /\ ~isLocked(heap[call'.e])
                    => heap'[call'.e]._isHorizontal = (call'.arg = "true")]_vars

\* C4 witness: the setter has just been called on a locked Stack engine with
\* the orientation the engine does not have.
C4_Witness ==
    /\ call.op = "set isHorizontal"
    /\ isLocked(heap[call.e])
    /\ heap[call.e]._isHorizontal # (call.arg = "true")

\* C5: each singleton accessor returns the instance its static refers to;
\* once set, the static never refers to another instance; and the instance
\* is a locked Stack engine from the access that creates it on.
C5_SingletonsStable ==
    [][/\ call'.op = "Horizontal" => call'.e = _horizontal'
       /\ call'.op = "Vertical" => call'.e = _vertical'
       /\ _horizontal # NullRef => _horizontal' = _horizontal
       /\ _vertical # NullRef => _vertical' = _vertical
       /\ \A ref \in {_horizontal', _vertical'} \ {NullRef} :
             heap'[ref].cls = "Stack" /\ isLocked(heap'[ref])]_vars

\* C5 witness: Horizontal has just returned the instance it created before
\* the Vertical singleton was created.
C5_Witness ==
    /\ call.op = "Horizontal"
    /\ call.e = 2
    /\ _vertical = 3
    /\ isLocked(heap[call.e])

\* The last call was updateLayout on a dirty prim, made with an engine of
\* class cls, and it returned.
LaidOutBy(cls) == UpdatedBy(cls) /\ call.arg = "dirty" /\ call.ret = "void"

C7_RootAreaIsActualSize ==
    (LaidOutBy("Canvas") /\ call.prim = Root)
        => layoutArea[Root] = actualSize[Root]

\* The main-axis and cross-axis components of a size and of a position.
MainExtent(h, size) == IF h THEN size.width ELSE size.height
CrossExtent(h, size) == IF h THEN size.height ELSE size.width
MainCoord(h, pos) == IF h THEN pos.x ELSE pos.y
CrossCoord(h, pos) == IF h THEN pos.y ELSE pos.x

\* C8: after StackPanelLayoutEngine.updateLayout on a dirty prim, the first
\* child is at (0, 0), every later child starts on the main axis where the
\* child before it ends (its coordinate plus its layoutArea extent), and
\* every child has cross-axis coordinate 0.
C8_StackPositions ==
    LaidOutBy("Stack")
        => LET h == heap[call.e]._isHorizontal
               kids == children[call.prim]
           IN  \A i \in 1 .. Len(kids) :
                  /\ i = 1 => layoutAreaPos[kids[i]] = Vector2(0, 0)
                  /\ i > 1 => MainCoord(h, layoutAreaPos[kids[i]]) =
                                 MainCoord(h, layoutAreaPos[kids[i - 1]])
                                 + MainExtent(h, layoutArea[kids[i - 1]])
                  /\ CrossCoord(h, layoutAreaPos[kids[i]]) = 0

\* C8 witness: a vertical Stack engine has just laid out three children with
\* margins; the third one is below the first two.
C8_Witness ==
    /\ LaidOutBy("Stack")
    /\ ~heap[call.e]._isHorizontal
    /\ margin = SomeMargins
    /\ Len(children[call.prim]) = 3
    /\ layoutAreaPos[children[call.prim][3]].y >
          layoutAreaPos[children[call.prim][2]].y
    /\ layoutAreaPos[children[call.prim][2]].y > 0

\* The largest element of a nonempty set of numbers.
Maximum(S) == CHOOSE m \in S : \A x \in S : m >= x

\* C9: after StackPanelLayoutEngine.updateLayout on a dirty prim, the
\* cross-axis extent of the layoutArea of every child is the maximum of the
\* margin-adjusted cross-axis extents of all the children, and its main-axis
\* extent is the child's own margin-adjusted one.
C9_StackUniformCross ==
    LaidOutBy("Stack")
        => LET h == heap[call.e]._isHorizontal
               kids == Range(children[call.prim])
           IN  \A c \in kids :
                  /\ CrossExtent(h, layoutArea[c]) =
                        Maximum({CrossExtent(h, MeasuredArea(k)) : k \in kids})
                  /\ MainExtent(h, layoutArea[c]) =
                        MainExtent(h, MeasuredArea(c))

\* C9 witness: a horizontal Stack engine has just laid out two children of
\* different margin-adjusted heights, which now have the same height.
C9_Witness ==
    /\ LaidOutBy("Stack")
    /\ heap[call.e]._isHorizontal
    /\ Len(children[call.prim]) = 2
    /\ LET a == children[call.prim][1]
           b == children[call.prim][2]
       IN  /\ MeasuredArea(a).height # MeasuredArea(b).height
           /\ layoutArea[a].height = layoutArea[b].height
           /\ layoutArea[a].width # layoutArea[b].width

\* C10: _parse maps "100" to Pixels with value 100, "2*" to Stars with value
\* 2 and "auto" to Auto, and a string derived from a core string by added
\* leading and trailing blanks and changed letter case parses to the same
\* kind and value as the core string.
C10_ParseNormalizes ==
    parsed # NotParsed
        => /\ parsed = _parse(core)
           /\ core = <<"1", "0", "0">>
                => (parsed.t = Pixels /\ parsed.v = 100)
           /\ core = <<"2", "*">> => (parsed.t = Stars /\ parsed.v = 2)
           /\ core = <<"a", "u", "t", "o">> => parsed.t = Auto

\* C10 witness: " AUTO " has just been parsed, as Auto.
C10_Witness ==
    /\ value = <<" ", "A", "U", "T", "O", " ">>
    /\ core = <<"a", "u", "t", "o">>
    /\ parsed.t = Auto

\* C11: a GridPanelLayoutEngine builds its cell table at most once: an
\* updateLayout on a dirty prim leaves the instance with a table, and once an
\* instance has a table no step changes or removes it, and no updateLayout
\* of that instance goes through the building code again (whose lookup of
\* the children's cells is what can throw), whatever prim it is called on.
C11_CellsBuiltOnce ==
    [][\A e \in EngineIds :
          /\ (/\ call'.op = "updateLayout" /\ call'.e = e
              /\ call'.arg = "dirty" /\ heap[e].cls = "Grid")
                => ~heap'[e]._cells.isNull
          /\ (heap[e].cls = "Grid" /\ ~heap[e]._cells.isNull)
                => /\ heap'[e]._cells = heap[e]._cells
                   /\ (call'.op = "updateLayout" /\ call'.e = e)
                         => call'.ret = "void"]_vars

\* C11 witness: a Grid engine has just laid out a dirty prim that has a child
\* whose cell lookup would throw; the table had been built by an earlier
\* call on another prim, so no lookup was made.
C11_Witness ==
    /\ LaidOutBy("Grid")
    /\ ~heap[call.e]._cells.isNull
    /\ call.prim # Root
    /\ \E child \in Range(children[call.prim]) :
          CellLookupThrows(heap[call.e]._cells, externalData[child])

\* C12: when GridPanelLayoutEngine.updateLayout has run on a dirty prim that
\* has a child without grid placement data, the prim's dirty flag is still
\* set and the call did not end by an exception.
C12_MissingDataSurfaced ==
    (/\ UpdatedBy("Grid")
     /\ call.arg = "dirty"
     /\ \E child \in Range(children[call.prim]) : externalData[child].isNull)
        => (flagLayoutDirty[call.prim] /\ call.ret # "throw")

\* C13: after GridPanelLayoutEngine.updateLayout on a dirty prim, each child
\* has been placed at the cumulative offsets of the row and column of its
\* cell; in particular a child placed in cell (0, 0), before which there is
\* no row and no column, has layoutAreaPos (0, 0).
C13_GridPlacesChildren ==
    LaidOutBy("Grid")
        => \A child \in Range(children[call.prim]) :
              externalData[child] = PrimitiveGridInfo(0, 0)
                 => layoutAreaPos[child] = Vector2(0, 0)

\* C14: CanvasLayoutEngine.updateLayout assigns no position: across a call,
\* on a dirty prim or a clean one, the layoutAreaPos of every prim of the
\* tree is unchanged.
C14_CanvasKeepsPositions ==
    [][(call'.op = "updateLayout" /\ heap[call'.e].cls = "Canvas")
          => \A n \in Nodes : layoutAreaPos'[n] = layoutAreaPos[n]]_vars

\* C14 witness: the canvas engine has just laid out the children of a dirty
\* prim, which hold their new layoutArea and still have the positions that
\* an earlier pass of a Stack engine gave them.
C14_Witness ==
    /\ LaidOutBy("Canvas")
    /\ Len(children[call.prim]) >= 2
    /\ \A c \in Range(children[call.prim]) :
          /\ layoutArea[c] = _doUpdate(c)
          /\ layoutAreaPos[c] # PriorPos
    /\ \E c \in Range(children[call.prim]) : layoutAreaPos[c] # Vector2(0, 0)

Normalized(s) == Trim(ToLocaleLowerCase(s))

StartsWithAuto(s) ==
    Len(s) >= 4 /\ SubSeq(s, 1, 4) = <<"a", "u", "t", "o">>

StarPositions(s) == {i \in 1 .. Len(s) : s[i] = "*"}

\* The part of s before its first "*".
BeforeFirstStar(s) ==
    LET first == CHOOSE i \in StarPositions(s) :
                     \A j \in StarPositions(s) : i <= j
    IN  SubSeq(s, 1, first - 1)

\* C16: every parsed specification string has exactly one kind, by a fixed
\* precedence: a normalized string that starts with "auto" is Auto, also
\* when it contains "*"; otherwise one that contains "*" is Stars, with as
\* value the number before the first "*"; otherwise it is Pixels, with
\* value and resolved pixels both the parsed number.  Auto and Stars get no
\* resolved pixels (null).
C16_ParsePrecedence ==
    parsed # NotParsed
        => LET s == Normalized(value)
           IN  /\ parsed.t \in {Pixels, Stars, Auto}
               /\ parsed.t = Auto <=> StartsWithAuto(s)
               /\ parsed.t = Stars
                     <=> (~StartsWithAuto(s) /\ StarPositions(s) # {})
               /\ parsed.t = Stars
                     => parsed.v = ParseFloat(BeforeFirstStar(s))
               /\ parsed.t = Pixels
                     => (parsed.v = ParseFloat(s) /\ parsed.vp = parsed.v)
               /\ parsed.t # Pixels => parsed.vp = Null

\* C16 witness: " Auto*" has just been parsed: it starts with "auto" and
\* contains "*", and is Auto without resolved pixels.
C16_Witness ==
    /\ value = <<" ", "A", "u", "t", "o", "*">>
    /\ parsed.t = Auto
    /\ parsed.vp = Null

\* The sum of the main-axis margin-adjusted extents of the first k of kids.
RECURSIVE SumMain(_, _, _)
SumMain(h, kids, k) ==
    IF k = 0 THEN 0
    ELSE SumMain(h, kids, k - 1)
           + MainExtent(h, ComputeArea(margin[kids[k]], actualSize[kids[k]]))

\* The layoutArea and layoutAreaPos of the i-th child of prim as functions of
\* the tree alone (children, actualSize, margin, contentArea) and, for a
\* Stack engine, of the orientation h: no layoutArea, layoutAreaPos, flag or
\* earlier call enters them.
AreaFromTree(cls, h, prim, i) ==
    LET kids == children[prim]
        own == ComputeArea(margin[kids[i]], actualSize[kids[i]])
        cross == Maximum({CrossExtent(h, ComputeArea(margin[k], actualSize[k]))
                             : k \in Range(kids)})
    IN  IF cls = "Canvas"
        THEN (IF prim = Root THEN actualSize[Root] ELSE contentArea[prim])
        ELSE IF h THEN Size(own.width, cross) ELSE Size(cross, own.height)

PosFromTree(h, prim, i) ==
    IF h THEN Vector2(SumMain(h, children[prim], i - 1), 0)
    ELSE Vector2(0, SumMain(h, children[prim], i - 1))

\* C17: a Canvas or Stack instance carries no layout state between calls: an
\* updateLayout of such an instance changes nothing of any instance, and on
\* a dirty prim it gives each child a layoutArea, and for Stack a
\* layoutAreaPos, that is a function of the tree under the prim (with the
\* root's actualSize) and of the instance's orientation only, whatever
\* calls on whatever prims came before.
C17_NoStateBetweenCalls ==
    [][LET cls == heap[call'.e].cls
           h == heap[call'.e]._isHorizontal
           kids == children[call'.prim]
       IN  (call'.op = "updateLayout" /\ cls \in {"Canvas", "Stack"})
              => /\ heap' = heap
                 /\ call'.arg = "dirty"
                       => \A i \in 1 .. Len(kids) :
                             /\ layoutArea'[kids[i]] =
                                   AreaFromTree(cls, h, call'.prim, i)
                             /\ cls = "Stack"
                                   => layoutAreaPos'[kids[i]] =
                                         PosFromTree(h, call'.prim, i)
      ]_vars

\* C17 witness: a Stack instance has just laid out the children of a prim
\* below the root, after the same instance had placed that prim among the
\* children of the root; the children hold the areas that the tree gives.
C17_Witness ==
    /\ LaidOutBy("Stack")
    /\ call.prim # Root
    /\ Len(children[call.prim]) = 2
    /\ layoutAreaPos[call.prim] # PriorPos
    /\ ~flagLayoutDirty[Root]
    /\ \A i \in 1 .. 2 :
          layoutArea[children[call.prim][i]] =
             AreaFromTree("Stack", heap[call.e]._isHorizontal, call.prim, i)

\* C18: a GridPanelLayoutEngine.updateLayout call that ends by an exception
\* leaves every engine as it was, the cell table still unbuilt; and the
\* updateLayout that follows it at once on the same instance and the same
\* prim ends by an exception too and leaves the prim dirty.
C18_FailedCallChangesNothing ==
    [][/\ (call'.op = "updateLayout" /\ call'.ret = "throw")
             => (heap' = heap /\ heap'[call'.e]._cells.isNull)
       /\ (/\ call.op = "updateLayout" /\ call.ret = "throw"
           /\ call'.op = "updateLayout"
           /\ call'.e = call.e /\ call'.prim = call.prim)
             => (call'.ret = "throw" /\ flagLayoutDirty'[call'.prim])]_vars

\* C19: in every state reached by singleton accesses, isHorizontal setter
\* calls, lock() calls and updateLayout calls, the instance that the
\* Horizontal accessor holds and returns has isHorizontal true, the one of
\* the Vertical accessor has isHorizontal false, and the two are distinct
\* instances.
C19_SingletonOrientations ==
    /\ _horizontal # NullRef
          => (heap[_horizontal].cls = "Stack"
              /\ heap[_horizontal]._isHorizontal)
    /\ _vertical # NullRef
          => (heap[_vertical].cls = "Stack" /\ ~heap[_vertical]._isHorizontal)
    /\ (_horizontal # NullRef /\ _vertical # NullRef)
          => _horizontal # _vertical
    /\ call.op = "Horizontal"
          => (call.e = _horizontal /\ heap[call.e]._isHorizontal)
    /\ call.op = "Vertical"
          => (call.e = _vertical /\ ~heap[call.e]._isHorizontal)

\* C19 witness: both singletons exist, and the setter has just been called
\* on the Horizontal one with false; it is still horizontal.
C19_Witness ==
    /\ _horizontal # NullRef
    /\ _vertical # NullRef
    /\ call.op = "set isHorizontal"
    /\ call.e = _horizontal
    /\ call.arg = "false"
    /\ heap[_horizontal]._isHorizontal
    /\ ~heap[_vertical]._isHorizontal

=============================================================================
